---- MODULE Spec2Model ----
(***************************************************************************)
(* iso_maker: the transfer lifecycle controller (update, src/src/app.rs)   *)
(* and the copy engine (copy_with_progress) it spawns, with the cancel and *)
(* progress channels between them, the progress-drain task, the queue of   *)
(* task messages back to update, and the destination files.                *)
(***************************************************************************)
EXTENDS Integers, Sequences, FiniteSets, TLC

(* ------------------------------ bounds -------------------------------- *)

\* Number of transfers (accepted StartCopy messages) a behaviour may start.
MaxTransfers == 2

\* Longest source file, in bytes.
MaxLen == 3

\* Byte values are 0..MaxByte.
MaxByte == 1

\* Size of the engine's read buffer, in bytes (4096 * 1024 in the program).
ChunkSize == 2

(* --------------------------- program constants ------------------------ *)

\* mpsc::channel(1): capacity of the cancel channel.
CANCEL_CAP == 1

\* mpsc::channel(100): capacity of the progress channel.
PROGRESS_CAP == 100

\* `f32 as u64` saturates; +inf becomes u64::MAX.  TLC's integers are 32 bit
\* wide, so the largest of them stands for 2^64 - 1.
U64_MAX == 2147483647

(* ------------------------------ domains ------------------------------- *)

Transfers  == 1..MaxTransfers
Bytes      == 0..MaxByte
Contents   == UNION {[1..l -> Bytes] : l \in 0..MaxLen}

\* Files the file dialog can return, and product strings the pick list can
\* offer (a device may report an empty product string).
SourcePaths == {"a.iso"}
Devices     == {"", "sdb"}
DestPaths   == Devices \ {""}

None == "None"

\* f32 values the program computes, as <<numerator, denominator>>:
\* <<0, 0>> is NaN (0/0) and <<1, 0>> is +inf (x/0, x > 0).
NaN    == <<0, 0>>
PosInf == <<1, 0>>
Zero   == <<0, 1>>
One    == <<1, 1>>

Min(a, b) == IF a < b THEN a ELSE b

RECURSIVE Gcd(_, _)
Gcd(a, b) == IF b = 0 THEN a ELSE Gcd(b, a % b)

\* a as f32 / b as f32
F32Div(a, b) ==
    IF b = 0 THEN (IF a = 0 THEN NaN ELSE PosInf)
    ELSE <<a \div Gcd(a, b), b \div Gcd(a, b)>>

\* f as u64: truncates towards zero, NaN gives 0, +inf saturates.
F32AsU64(f) ==
    IF f = NaN THEN 0
    ELSE IF f = PosInf THEN U64_MAX
    ELSE f[1] \div f[2]

(* ------------------------------- state -------------------------------- *)

VARIABLES
    source,       \* IsoMaker.source
    dest,         \* IsoMaker.dest
    progress,     \* IsoMaker.progress
    total,        \* IsoMaker.total
    is_copying,   \* IsoMaker.is_copying
    error,        \* IsoMaker.error (None or the text)
    cancel_tx,    \* IsoMaker.cancel_tx: 0 for None, else the transfer whose
                  \* cancel channel the sender belongs to
    started,      \* number of copy tasks spawned so far
    eng,          \* per transfer: the copy_with_progress future
    cancel_ch,    \* per transfer: the cancel channel
    progress_ch,  \* per transfer: the queue of the progress channel
    drain,        \* per transfer: the progress-drain future
    inbox,        \* messages of finished tasks on their way to update
    outcomes,     \* per transfer: CopyComplete messages update has handled
    fs,           \* contents of the source files
    disk          \* the destination files

ctl  == <<source, dest, progress, total, is_copying, error, cancel_tx>>
task == <<started, eng, cancel_ch, progress_ch, drain>>
vars == <<source, dest, progress, total, is_copying, error, cancel_tx,
          started, eng, cancel_ch, progress_ch, drain, inbox, outcomes,
          fs, disk>>

\* A copy_with_progress future that has not been created.
NoEngine ==
    [pc |-> "unspawned", source |-> "", dest |-> "", total |-> 0,
     copied |-> 0, n |-> 0, result |-> None]

NoDrain == [pc |-> "unspawned", last_progress |-> 0]

\* An mpsc channel that has not been created: len is the number of queued
\* values, tx and rx say whether the sender and the receiver are alive.
NoChannel == [len |-> 0, tx |-> FALSE, rx |-> FALSE]

\* A file that does not exist.
NoFile == [exists |-> FALSE, data |-> <<>>]

\* The file the lifecycle specification copies: with short reads it takes
\* one chunk or two.
Image == <<0, 1>>

\* What a destination may hold before a transfer: more bytes than any source.
StaleFile == [exists |-> TRUE, data |-> [i \in 1..(MaxLen + 1) |-> MaxByte]]

\* IsoMaker::default() with the paths src and dst chosen, no task spawned and
\* no message under way.
Start(src, dst) ==
    /\ source = src
    /\ dest = dst
    /\ progress = Zero
    /\ total = 0
    /\ is_copying = FALSE
    /\ error = None
    /\ cancel_tx = 0
    /\ started = 0
    /\ eng = [e \in Transfers |-> NoEngine]
    /\ cancel_ch = [e \in Transfers |-> NoChannel]
    /\ progress_ch = [e \in Transfers |-> <<>>]
    /\ drain = [e \in Transfers |-> NoDrain]
    /\ inbox = <<>>
    /\ outcomes = [e \in Transfers |-> 0]

Init ==
    /\ Start("", "")
    /\ fs = [p \in SourcePaths |-> Image]
    /\ disk = [d \in DestPaths |-> NoFile]

\* Any source content, and a destination that may exist already.
InitCopy ==
    /\ Start("", "")
    /\ fs \in [SourcePaths -> Contents]
    /\ disk \in [DestPaths -> {NoFile, StaleFile}]

(* ------------------------ messages to update -------------------------- *)

\* id names the transfer whose task produced the message; update never
\* reads it.
CopyCompleteMsg(e, result) ==
    [type |-> "CopyComplete", id |-> e, result |-> result, bytes |-> 0]

CopyProgressMsg(e, bytes) ==
    [type |-> "CopyProgress", id |-> e, result |-> None, bytes |-> bytes]

(* ------------------------------ update -------------------------------- *)

\* Message::SourceChanged: the dialog returns a file or is dismissed.
SourceChanged(file) ==
    /\ IF file # None
       THEN source' = file /\ error' = error
       ELSE /\ source' = source
            /\ error' = IF source = ""
                        THEN "Source file picking was cancelled."
                        ELSE error
    /\ UNCHANGED <<dest, progress, total, is_copying, cancel_tx>>
    /\ UNCHANGED <<task, inbox, outcomes, fs, disk>>

\* Message::DestChanged(device): claimed is the outcome of
\* detach_and_claim_interface.
DestChanged(device, claimed) ==
    /\ dest' = device
    /\ error' = IF claimed THEN error
                ELSE "Could not get access to the USB device."
    /\ UNCHANGED <<source, progress, total, is_copying, cancel_tx>>
    /\ UNCHANGED <<task, inbox, outcomes, fs, disk>>

\* Dropping the sender of the channel cancel_tx refers to.  A channel whose
\* receiver is already gone is left as it was.
DropSender(ch, old) ==
    IF old # 0 /\ ch[old].rx
    THEN [ch EXCEPT ![old].tx = FALSE]
    ELSE ch

\* Mutant of EmptyPaths: && in place of ||.
EmptyPaths_and == source = "" /\ dest = ""

\* iso_maker.source.is_empty() || iso_maker.dest.is_empty()
EmptyPaths == source = "" \/ dest = ""

\* Message::StartCopy with an empty source or destination.
StartCopyRejected ==
    /\ error' = "Source and Destination are both required"
    /\ UNCHANGED <<source, dest, progress, total, is_copying, cancel_tx>>
    /\ UNCHANGED <<task, inbox, outcomes, fs, disk>>

\* Message::StartCopy otherwise: the channels are created, the sender
\* replaces the one in cancel_tx, and the two tasks are spawned.
StartCopyAccepted ==
    /\ started < MaxTransfers
    /\ LET e == started + 1 IN
       /\ is_copying' = TRUE
       /\ error' = None
       /\ cancel_ch' = [DropSender(cancel_ch, cancel_tx) EXCEPT
                            ![e] = [len |-> 0, tx |-> TRUE, rx |-> TRUE]]
       /\ progress_ch' = [progress_ch EXCEPT ![e] = <<>>]
       /\ cancel_tx' = e
       /\ eng' = [eng EXCEPT ![e] = [NoEngine EXCEPT !.pc = "open",
                                                     !.source = source,
                                                     !.dest = dest]]
       /\ drain' = [drain EXCEPT ![e] = [pc |-> "recv", last_progress |-> 0]]
       /\ started' = e
    /\ UNCHANGED <<source, dest, progress, total, inbox, outcomes, fs, disk>>

\* Message::StartCopy
StartCopy == IF EmptyPaths THEN StartCopyRejected ELSE StartCopyAccepted

\* Message::CopyProgress(bytes)
CopyProgress(bytes) ==
    /\ progress' = F32Div(bytes, total)
    /\ UNCHANGED <<source, dest, total, is_copying, error, cancel_tx>>

\* Message::CopyComplete(result)
CopyComplete(result) ==
    /\ is_copying' = FALSE
    /\ IF result = "Ok"
       THEN progress' = One /\ error' = error
       ELSE error' = result /\ progress' = progress
    /\ UNCHANGED <<source, dest, total, cancel_tx>>

\* tx.blocking_send(()): Err at once when the receiver is gone, else the value
\* is queued (the call waits while the queue is full); tx is dropped after.
BlockingSend(ch, e) ==
    IF ~ch[e].rx THEN ch
    ELSE [ch EXCEPT ![e].len = @ + 1, ![e].tx = FALSE]

\* Message::Cancel
Cancel ==
    /\ IF cancel_tx # 0
       THEN /\ cancel_ch[cancel_tx].rx => cancel_ch[cancel_tx].len < CANCEL_CAP
            /\ cancel_ch' = BlockingSend(cancel_ch, cancel_tx)
       ELSE cancel_ch' = cancel_ch
    /\ cancel_tx' = 0
    /\ is_copying' = FALSE
    /\ UNCHANGED <<source, dest, progress, total, error>>
    /\ UNCHANGED <<started, eng, progress_ch, drain, inbox, outcomes, fs, disk>>

\* The runtime hands the oldest task message to update.
Deliver ==
    /\ inbox # <<>>
    /\ LET m == Head(inbox) IN
       IF m.type = "CopyProgress"
       THEN CopyProgress(m.bytes) /\ outcomes' = outcomes
       ELSE /\ CopyComplete(m.result)
            /\ outcomes' = [outcomes EXCEPT ![m.id] = @ + 1]
    /\ inbox' = Tail(inbox)
    /\ UNCHANGED <<task, fs, disk>>

(* ------------------------- copy_with_progress ------------------------- *)

\* cancel_rx.recv() completes when a value is queued or the sender is gone.
RecvReady(ch) == ch.len > 0 \/ ~ch.tx

\* The bytes a file holds after `chunk` is written at offset `off`; a gap
\* left by a truncation is filled with zero bytes.
WriteAt(data, off, chunk) ==
    LET end == off + Len(chunk)
        len == IF Len(data) > end THEN Len(data) ELSE end
    IN  [i \in 1..len |->
            IF i > off /\ i <= end THEN chunk[i - off]
            ELSE IF i <= Len(data) THEN data[i]
            ELSE 0]

\* Mutant of Buffer: the whole buffer is written, not buffer[..n]; what lies
\* after the n bytes read is the zero bytes the buffer was created with.
Buffer_whole(e) ==
    [i \in 1..ChunkSize |->
        IF i <= eng[e].n THEN fs[eng[e].source][eng[e].copied + i] ELSE 0]

\* The bytes src.read put into buffer[..n].
Buffer(e) == SubSeq(fs[eng[e].source], eng[e].copied + 1,
                    eng[e].copied + eng[e].n)

\* Mutant of Return: the outcome is reported twice.
Return_twice(e, result) ==
    /\ eng' = [eng EXCEPT ![e].pc = "done", ![e].result = result]
    /\ cancel_ch' = [cancel_ch EXCEPT ![e].rx = FALSE]
    /\ inbox' = inbox \o <<CopyCompleteMsg(e, result), CopyCompleteMsg(e, result)>>

\* The future returns `result`: cancel_rx and progress_tx are dropped with it
\* and Message::CopyComplete(result) is queued for update.
Return(e, result) ==
    /\ eng' = [eng EXCEPT ![e].pc = "done", ![e].result = result]
    /\ cancel_ch' = [cancel_ch EXCEPT ![e].rx = FALSE]
    /\ inbox' = Append(inbox, CopyCompleteMsg(e, result))

\* Mutant of OpenSource: the destination is created before the source is
\* opened.
OpenSource_after_create(e, ok) ==
    /\ eng[e].pc = "open"
    /\ disk' = [disk EXCEPT ![eng[e].dest] = [exists |-> TRUE, data |-> <<>>]]
    /\ IF ok
       THEN /\ eng' = [eng EXCEPT ![e].pc = "metadata"]
            /\ UNCHANGED <<cancel_ch, inbox>>
       ELSE Return(e, "Source error")
    /\ UNCHANGED <<ctl, started, progress_ch, drain, outcomes, fs>>

\* File::open(&source)
OpenSource(e, ok) ==
    /\ eng[e].pc = "open"
    /\ IF ok
       THEN /\ eng' = [eng EXCEPT ![e].pc = "metadata"]
            /\ UNCHANGED <<cancel_ch, inbox>>
       ELSE Return(e, "Source error")
    /\ UNCHANGED <<ctl, started, progress_ch, drain, outcomes, fs, disk>>

\* src.metadata().len()
Metadata(e, ok) ==
    /\ eng[e].pc = "metadata"
    /\ IF ok
       THEN /\ eng' = [eng EXCEPT ![e].pc = "create",
                                  ![e].total = Len(fs[eng[e].source])]
            /\ UNCHANGED <<cancel_ch, inbox>>
       ELSE Return(e, "Metadata error")
    /\ UNCHANGED <<ctl, started, progress_ch, drain, outcomes, fs, disk>>

\* File::create(&dest): creates the file or truncates it.
CreateDest(e, ok) ==
    /\ eng[e].pc = "create"
    /\ IF ok
       THEN /\ eng' = [eng EXCEPT ![e].pc = "select"]
            /\ disk' = [disk EXCEPT ![eng[e].dest] =
                            [exists |-> TRUE, data |-> <<>>]]
            /\ UNCHANGED <<cancel_ch, inbox>>
       ELSE Return(e, "Dest error") /\ disk' = disk
    /\ UNCHANGED <<ctl, started, progress_ch, drain, outcomes, fs>>

\* Mutant of SelectCancel: the branch leaves the loop with `break`, so the
\* function ends with Ok(()).
SelectCancel_break(e) ==
    /\ eng[e].pc = "select"
    /\ RecvReady(cancel_ch[e])
    /\ eng' = [eng EXCEPT ![e].pc = "done", ![e].result = "Ok"]
    /\ cancel_ch' = [cancel_ch EXCEPT ![e].len = 0, ![e].rx = FALSE]
    /\ inbox' = Append(inbox, CopyCompleteMsg(e, "Ok"))
    /\ UNCHANGED <<ctl, started, progress_ch, drain, outcomes, fs, disk>>

\* select!: the cancel_rx.recv() branch.  recv takes the queued value, if
\* there is one, and the function returns Err("Cancelled").
SelectCancel(e) ==
    /\ eng[e].pc = "select"
    /\ RecvReady(cancel_ch[e])
    /\ eng' = [eng EXCEPT ![e].pc = "done", ![e].result = "Cancelled"]
    /\ cancel_ch' = [cancel_ch EXCEPT ![e].len = 0, ![e].rx = FALSE]
    /\ inbox' = Append(inbox, CopyCompleteMsg(e, "Cancelled"))
    /\ UNCHANGED <<ctl, started, progress_ch, drain, outcomes, fs, disk>>

\* select!: the src.read(&mut buffer) branch; the read gives n bytes, 0 at
\* the end of the file only.  The macro polls its branches in random order,
\* so this branch can win while a cancellation is pending.
SelectRead(e, n, ok) ==
    /\ eng[e].pc = "select"
    /\ LET rest == Len(fs[eng[e].source]) - eng[e].copied IN
       IF rest = 0 THEN n = 0 ELSE n \in 1..Min(ChunkSize, rest)
    /\ IF ~ok THEN Return(e, "Read error")
       ELSE IF n = 0 THEN Return(e, "Ok")
       ELSE /\ eng' = [eng EXCEPT ![e].pc = "write", ![e].n = n]
            /\ UNCHANGED <<cancel_ch, inbox>>
    /\ UNCHANGED <<ctl, started, progress_ch, drain, outcomes, fs, disk>>

\* dest.write_all(&buffer[..n]), then copied += n.  A failing write may have
\* put the first k < n bytes into the file.
WriteAll(e, k, ok) ==
    /\ eng[e].pc = "write"
    /\ LET f == disk[eng[e].dest] IN
       IF ok
       THEN /\ k = eng[e].n
            /\ disk' = [disk EXCEPT ![eng[e].dest].data =
                            WriteAt(f.data, eng[e].copied, Buffer(e))]
            /\ eng' = [eng EXCEPT ![e].pc = "send",
                                  ![e].copied = @ + eng[e].n]
            /\ UNCHANGED <<cancel_ch, inbox>>
       ELSE /\ k < eng[e].n
            /\ disk' = [disk EXCEPT ![eng[e].dest].data =
                            WriteAt(f.data, eng[e].copied,
                                    SubSeq(Buffer(e), 1, k))]
            /\ Return(e, "Write error")
    /\ UNCHANGED <<ctl, started, progress_ch, drain, outcomes, fs>>

\* Mutant of Sample: the fraction is scaled to a percentage before the cast.
Sample_percent(e) == F32AsU64(F32Div(100 * eng[e].copied, eng[e].total))

\* The value of `progress as u64`, progress = copied as f32 / total as f32.
Sample(e) == F32AsU64(F32Div(eng[e].copied, eng[e].total))

\* progress_tx.send(progress as u64).await: waits while the queue is full.
SendProgress(e) ==
    /\ eng[e].pc = "send"
    /\ Len(progress_ch[e]) < PROGRESS_CAP
    /\ progress_ch' = [progress_ch EXCEPT ![e] = Append(@, Sample(e))]
    /\ eng' = [eng EXCEPT ![e].pc = "select"]
    /\ UNCHANGED <<ctl, started, cancel_ch, drain, inbox, outcomes, fs, disk>>

(* ------------------------------ drain task ---------------------------- *)

\* progress_rx.recv() gives Some(bytes)
DrainRecv(e) ==
    /\ drain[e].pc = "recv"
    /\ progress_ch[e] # <<>>
    /\ drain' = [drain EXCEPT ![e].last_progress = Head(progress_ch[e])]
    /\ progress_ch' = [progress_ch EXCEPT ![e] = Tail(@)]
    /\ UNCHANGED <<ctl, started, eng, cancel_ch, inbox, outcomes, fs, disk>>

\* progress_rx.recv() gives None (the queue is empty and progress_tx was
\* dropped): the task ends and Message::CopyProgress(last_progress) is queued.
DrainFinish(e) ==
    /\ drain[e].pc = "recv"
    /\ progress_ch[e] = <<>>
    /\ eng[e].pc = "done"
    /\ drain' = [drain EXCEPT ![e].pc = "done"]
    /\ inbox' = Append(inbox, CopyProgressMsg(e, drain[e].last_progress))
    /\ UNCHANGED <<ctl, started, eng, cancel_ch, progress_ch, outcomes, fs, disk>>

(* ---------------------------- specification --------------------------- *)

\* The steps of the tasks of transfer e.
EngineStep(e) ==
    \/ \E ok \in BOOLEAN : OpenSource(e, ok)
    \/ \E ok \in BOOLEAN : Metadata(e, ok)
    \/ \E ok \in BOOLEAN : CreateDest(e, ok)
    \/ SelectCancel(e)
    \/ \E n \in 0..ChunkSize, ok \in BOOLEAN : SelectRead(e, n, ok)
    \/ \E k \in 0..ChunkSize, ok \in BOOLEAN : WriteAll(e, k, ok)
    \/ SendProgress(e)

DrainStep(e) == DrainRecv(e) \/ DrainFinish(e)

\* The messages of the widgets.
UserStep ==
    \/ \E file \in SourcePaths \cup {None} : SourceChanged(file)
    \/ \E device \in Devices, claimed \in BOOLEAN : DestChanged(device, claimed)
    \/ Cancel

Next ==
    \/ UserStep
    \/ StartCopy
    \/ Deliver
    \/ \E e \in Transfers : EngineStep(e)
    \/ \E e \in Transfers : DrainStep(e)

\* The application: any number of transfers up to MaxTransfers, of Image.
Spec == Init /\ [][Next]_vars

\* A step of some task, or update handling a queued task message.
TaskStep ==
    \/ \E e \in Transfers : EngineStep(e)
    \/ \E e \in Transfers : DrainStep(e)
    \/ Deliver

\* The executor keeps polling the tasks that can run and the runtime keeps
\* handing queued messages to update: while one of them can take a step, one
\* eventually does.
Fairness == WF_vars(TaskStep)

\* The lifecycle of transfers once a source and a destination are chosen:
\* StartCopy, Cancel and the tasks, under fair scheduling.
InitChosen ==
    /\ Start("a.iso", "sdb")
    /\ fs = [p \in SourcePaths |-> Image]
    /\ disk = [d \in DestPaths |-> NoFile]

NextRun ==
    \/ StartCopy
    \/ Cancel
    \/ TaskStep

FairSpec == InitChosen /\ [][NextRun]_vars /\ Fairness

\* One transfer, of any source content.
NextCopy ==
    \/ UserStep
    \/ (EmptyPaths \/ started = 0) /\ StartCopy
    \/ Deliver
    \/ \E e \in Transfers : EngineStep(e)
    \/ \E e \in Transfers : DrainStep(e)

CopySpec == InitCopy /\ [][NextCopy]_vars

(* ------------------------------- claims ------------------------------- *)

\* A copy_with_progress future that was spawned and has not returned.
Active(e) == eng[e].pc \notin {"unspawned", "done"}

\* The CopyComplete messages of transfer e that are queued for update.
Queued(e) ==
    {i \in DOMAIN inbox : inbox[i].type = "CopyComplete" /\ inbox[i].id = e}

\* C1: in every reachable state at most one copy engine task spawned by the
\* controller is still active.
C1_AtMostOneActiveEngine ==
    Cardinality({e \in Transfers : Active(e)}) <= 1

\* C2: a StartCopy received while a transfer is Running (is_copying, source
\* and destination not empty) spawns no engine, creates no channel and leaves
\* the cancel sender of the running transfer in place.
C2_StartCopyWhileRunningRejected ==
    [][(StartCopy /\ is_copying /\ source # "" /\ dest # "")
        => UNCHANGED <<started, eng, drain, cancel_ch, progress_ch, cancel_tx>>]_vars

\* C3: when the engine takes the cancellation out of its channel it returns
\* Cancelled in that step without writing, and an engine that has returned
\* Cancelled stays so and writes nothing to the destination afterwards.
C3_CancelObservedStopsCopy ==
    [][\A e \in Transfers :
        /\ (cancel_ch[e].len > 0 /\ cancel_ch'[e].len = 0)
              => /\ eng'[e].pc = "done"
                 /\ eng'[e].result = "Cancelled"
                 /\ disk' = disk
        /\ (eng[e].pc = "done" /\ eng[e].result = "Cancelled")
              => /\ eng'[e] = eng[e]
                 /\ disk' # disk => \E o \in Transfers \ {e} : eng'[o] # eng[o]
      ]_vars

\* C3 witness: an engine cancelled in the middle of the copy; the destination
\* holds what was written before, a proper prefix of the source.
C3_Witness ==
    \E e \in Transfers :
        /\ eng[e].pc = "done" /\ eng[e].result = "Cancelled"
        /\ cancel_ch[e].len = 0 /\ ~cancel_ch[e].tx
        /\ eng[e].copied > 0 /\ eng[e].copied < Len(fs[eng[e].source])
        /\ disk[eng[e].dest].data = SubSeq(fs[eng[e].source], 1, eng[e].copied)

\* C4: if the cancellation is pending when the select of the first loop
\* iteration is evaluated (nothing copied yet), the engine's step from there
\* returns Cancelled (a failing read aside) and writes no byte.
C4_CancelBeforeFirstRead ==
    [][\A e \in Transfers :
        (/\ eng[e].pc = "select" /\ eng[e].copied = 0
         /\ cancel_ch[e].len > 0
         /\ eng'[e] # eng[e])
        => /\ eng'[e].pc = "done"
           /\ eng'[e].result \in {"Cancelled", "Read error"}
           /\ disk' = disk
      ]_vars

\* C5: once a cancel request is queued for a running engine, the engine
\* starts no new chunk: at a select with the cancellation pending the read
\* branch is not taken.
C5_CancelHasPriority ==
    [][\A e \in Transfers :
        (eng[e].pc = "select" /\ cancel_ch[e].len > 0) => eng'[e].pc # "write"
      ]_vars

\* C6: every transfer started by an accepted StartCopy has exactly one
\* CopyComplete handled by update: never more than one is produced, and under
\* fair scheduling the one is eventually handled.
C6_ExactlyOneOutcome ==
    /\ [](\A e \in Transfers :
            /\ outcomes[e] + Cardinality(Queued(e)) <= 1
            /\ outcomes[e] + Cardinality(Queued(e)) = 1 <=> eng[e].pc = "done")
    /\ \A e \in Transfers : (eng[e].pc # "unspawned") ~> (outcomes[e] = 1)

\* C6 witness: two transfers were started, the first one superseded and
\* cancelled, and update has handled one outcome of each.
C6_Witness ==
    /\ outcomes[1] = 1 /\ outcomes[2] = 1
    /\ eng[1].result = "Cancelled" /\ eng[2].result = "Ok"
    /\ inbox = <<>>

\* C7: a Cancel handled while a transfer is Running leaves is_copying true;
\* is_copying falls only when update handles a CopyComplete.
C7_CancelKeepsRunning ==
    [][/\ (Cancel /\ is_copying) => is_copying'
       /\ (is_copying /\ ~is_copying')
             => /\ inbox # <<>>
                /\ Head(inbox).type = "CopyComplete"
                /\ inbox' = Tail(inbox)
      ]_vars

\* C8: a Cancel handled when no engine is running (none spawned, or every
\* engine has returned) leaves is_copying, progress and error as they were,
\* and changes no engine and no outcome.
C8_CancelWhenNotRunningIsNoOp ==
    [][(Cancel /\ \A e \in Transfers : ~Active(e))
        => UNCHANGED <<is_copying, progress, error, eng, inbox, outcomes>>]_vars

\* C9: a StartCopy with an empty source or destination records the
\* validation error, spawns nothing, creates no channel and leaves
\* is_copying, progress and cancel_tx as they were.
C9_EmptyPathsNeverStart ==
    [][(StartCopy /\ (source = "" \/ dest = ""))
        => /\ error' = "Source and Destination are both required"
           /\ UNCHANGED <<is_copying, progress, cancel_tx>>
           /\ UNCHANGED <<started, eng, drain, cancel_ch, progress_ch>>
      ]_vars

\* C9 witness: the request was rejected while a transfer was running.
C9_Witness ==
    /\ error = "Source and Destination are both required"
    /\ source # "" /\ dest = ""
    /\ is_copying /\ cancel_tx = 1 /\ Active(1)

\* C10: when the engine returns Ok the destination holds the source's bytes,
\* whatever the source's length and whatever the destination held before.
C10_CopyIsExact ==
    \A e \in Transfers :
        (eng[e].pc = "done" /\ eng[e].result = "Ok")
        => /\ disk[eng[e].dest].exists
           /\ disk[eng[e].dest].data = fs[eng[e].source]

\* C10 witness: a source of more than one chunk whose length is no multiple
\* of the chunk size was copied.
C10_Witness ==
    \E e \in Transfers :
        /\ eng[e].pc = "done" /\ eng[e].result = "Ok"
        /\ Len(fs[eng[e].source]) > ChunkSize
        /\ Len(fs[eng[e].source]) % ChunkSize # 0
        /\ disk[eng[e].dest].data = fs[eng[e].source]

\* The CopyProgress messages of transfer e that are queued for update.
QueuedProgress(e) ==
    {i \in DOMAIN inbox : inbox[i].type = "CopyProgress" /\ inbox[i].id = e}

\* update has handled both messages of transfer e, the outcome and the drain
\* task's CopyProgress.
BothHandled(e) ==
    /\ outcomes[e] = 1
    /\ drain[e].pc = "done"
    /\ QueuedProgress(e) = {}

\* C11: after a transfer ends with Success, once update has handled its
\* CopyComplete(Ok) and its CopyProgress, progress is exactly 1.0.
C11_FinalProgressIsOne ==
    \A e \in Transfers :
        (e = started /\ eng[e].result = "Ok" /\ BothHandled(e))
        => progress = One

\* C12: every value the engine pushes into the progress channel is at least
\* the value it pushed before (the newest queued one, or the last one the
\* drain task took when the queue is empty) and at most the source's size.
C12_SamplesMonotoneAndBounded ==
    [][\A e \in Transfers :
        (Len(progress_ch'[e]) = Len(progress_ch[e]) + 1)
        => LET v    == progress_ch'[e][Len(progress_ch'[e])]
               prev == IF progress_ch[e] # <<>>
                       THEN progress_ch[e][Len(progress_ch[e])]
                       ELSE drain[e].last_progress
           IN  /\ v >= prev
               /\ v <= Len(fs[eng[e].source])
               /\ v >= 0
      ]_vars

\* C12 witness: the engine has pushed two values, the second one after the
\* last chunk of a source of more than one chunk.
C12_Witness ==
    \E e \in Transfers :
        /\ Len(progress_ch[e]) = 2
        /\ eng[e].pc = "select"
        /\ eng[e].copied = Len(fs[eng[e].source])
        /\ progress_ch[e][1] <= progress_ch[e][2]

\* C13: an engine that ends at File::open or at metadata() returns the
\* Source error or the Metadata error, has copied nothing, and leaves the
\* destination as it was before the transfer: not created, not truncated.
C13_SourceFailureLeavesDest ==
    \A e \in Transfers :
        /\ (eng[e].pc = "done"
            /\ eng[e].result \in {"Source error", "Metadata error"})
           => /\ disk[eng[e].dest] \in {NoFile, StaleFile}
              /\ eng[e].copied = 0
        /\ (eng[e].pc = "done" /\ disk[eng[e].dest] \in {NoFile, StaleFile})
           => eng[e].result \in {"Source error", "Metadata error", "Dest error"}

\* C13 witness: the source could not be opened and the destination, which
\* existed before, still holds what it held.
C13_Witness ==
    \E e \in Transfers :
        /\ eng[e].pc = "done" /\ eng[e].result = "Source error"
        /\ disk[eng[e].dest] = StaleFile

\* Every transfer started so far has ended and update has handled all of its
\* messages: the controller is in a terminal state.
Terminal ==
    /\ started > 0
    /\ ~is_copying
    /\ inbox = <<>>
    /\ \A e \in 1..started : eng[e].pc = "done" /\ drain[e].pc = "done"

\* C14: a StartCopy accepted in a terminal state clears what the transfer
\* before left: error is None and the displayed progress is back at zero.
C14_StartCopyClearsPriorState ==
    [][(StartCopy /\ Terminal /\ source # "" /\ dest # "")
        => (error' = None /\ progress' = Zero)]_vars

\* C15: the fraction update stores when it handles CopyProgress(bytes) is
\* bytes over the size of the source being copied, 0 when that size is 0, and
\* lies in [0, 1].
C15_FractionInUnitRange ==
    [][\A e \in Transfers :
        (/\ inbox # <<>>
         /\ Head(inbox).type = "CopyProgress" /\ Head(inbox).id = e
         /\ inbox' = Tail(inbox))
        => LET size == Len(fs[eng[e].source]) IN
           /\ progress' = IF size = 0 THEN Zero
                          ELSE F32Div(Head(inbox).bytes, size)
           /\ progress'[2] # 0
           /\ 0 <= progress'[1] /\ progress'[1] <= progress'[2]
      ]_vars

\* A source of more one-byte chunks than the progress channel has slots.
LongFile == [i \in 1..(PROGRESS_CAP + 1) |-> 0]

InitStall ==
    /\ Start("a.iso", "sdb")
    /\ fs = [p \in SourcePaths |-> LongFile]
    /\ disk = [d \in DestPaths |-> NoFile]

\* The steps of the engine of transfer e over a source that gives one byte
\* to each read.
SlowEngineStep(e) ==
    \/ \E ok \in BOOLEAN : OpenSource(e, ok)
    \/ \E ok \in BOOLEAN : Metadata(e, ok)
    \/ \E ok \in BOOLEAN : CreateDest(e, ok)
    \/ SelectCancel(e)
    \/ \E n \in 0..1, ok \in BOOLEAN : SelectRead(e, n, ok)
    \/ \E k \in 0..1, ok \in BOOLEAN : WriteAll(e, k, ok)
    \/ SendProgress(e)

\* One transfer of LongFile; the drain task runs whenever the executor polls
\* it, which may be late.
NextStall ==
    \/ started = 0 /\ StartCopy
    \/ Cancel
    \/ Deliver
    \/ \E e \in Transfers : SlowEngineStep(e)
    \/ \E e \in Transfers : DrainStep(e)

StallSpec == InitStall /\ [][NextStall]_vars

\* C16: pushing a progress sample never makes the copy loop wait: an engine
\* that is about to push can always take that step, also when the progress
\* channel is full.
C16_SendNeverBlocks ==
    \A e \in Transfers : eng[e].pc = "send" => ENABLED SendProgress(e)

\* C17: the value the engine pushes after a chunk write is the number of
\* bytes it has written to the destination so far, and the counter advances
\* only in the step that writes the whole chunk.
C17_SampleIsCumulativeBytes ==
    [][\A e \in Transfers :
        /\ (Len(progress_ch'[e]) = Len(progress_ch[e]) + 1)
              => progress_ch'[e][Len(progress_ch'[e])] = eng[e].copied
        /\ (eng'[e].copied # eng[e].copied /\ eng[e].pc # "unspawned")
              => /\ eng[e].pc = "write"
                 /\ eng'[e].copied = eng[e].copied + eng[e].n
                 /\ SubSeq(disk'[eng[e].dest].data, 1, eng'[e].copied)
                      = SubSeq(fs[eng[e].source], 1, eng'[e].copied)
      ]_vars

\* C18: no CopyProgress of a transfer is handled by update after that
\* transfer's CopyComplete; the samples reach update before the outcome.
C18_ProgressBeforeOutcome ==
    [][\A e \in Transfers :
        (/\ inbox # <<>>
         /\ Head(inbox).type = "CopyProgress" /\ Head(inbox).id = e
         /\ inbox' = Tail(inbox))
        => outcomes[e] = 0
      ]_vars

\* C19: while the transfer started last is still running, a message of an
\* earlier transfer changes none of is_copying, error and progress.
C19_StaleMessagesIgnored ==
    [][(/\ started > 0 /\ Active(started)
        /\ inbox # <<>> /\ Head(inbox).id < started
        /\ inbox' = Tail(inbox))
        => UNCHANGED <<is_copying, error, progress>>]_vars

\* C20: an engine returns Cancelled only when a cancel value sent by the
\* Cancel handler is queued for it; a sender dropped without sending does not
\* cancel it.
C20_CancelledOnlyAfterCancel ==
    [][\A e \in Transfers :
        (eng[e].pc # "done" /\ eng'[e].pc = "done"
         /\ eng'[e].result = "Cancelled")
        => cancel_ch[e].len > 0
      ]_vars

====
